---- MODULE Spec2Model ----
(***************************************************************************)
(* Territory coverage resolution of the Zenbooker MCP server.              *)
(*                                                                         *)
(* One invocation of checkTerritoryCoverageTool.handler is modelled as a   *)
(* sequential process whose steps are split at its awaits: every outbound  *)
(* network call is issued by one action and completed by another, the      *)
(* answer being chosen by the environment when the call completes.         *)
(*                                                                         *)
(* Coordinates are integers in hundredths of a degree, so the 0.15 degree  *)
(* offset of the fallback square is 15.                                    *)
(*                                                                         *)
(* Further specifications: SpecRequest, one direct call of the REST client;*)
(* SpecTwo, two invocations of the handler interleaved in one world;       *)
(* SpecMemory, the claim log of MemorySystem.                              *)
(***************************************************************************)
EXTENDS Integers, Sequences, FiniteSets, TLC

\* ------------------------------------------------------------------ bounds
\* longest territories response the environment answers with
MaxTerritories == 2

\* most calls of each kind made on one MemorySystem
MaxEntries == 2

\* last millisecond the clock reaches
MaxClock == 1

\* most vertices of a polygon handed to the containment test on its own
MaxVertices == 4

\* most requests, tool invocations and setApiKey calls one Worker sees
MaxRequests == 3

\* ------------------------------------------------------- program constants
ZipLimit == 5
CityLimit == 3
MinPolygon == 3
offset == 15

\* ------------------------------------------------------------ plain values
\* an absent object; an absent string or number is the empty tuple, a present one
\* the tuple of it; an absent field of a territory is left out of its record
None == [undefined |-> TRUE]

Absent == << >>

Some(v) == << v >>

Coord(lat, lon) == [latitude |-> lat, longitude |-> lon]

\* credentials handed to the handler: absent, empty, present
ApiKeys == { Absent, Some(""), Some("zb-key") }

\* addresses handed to the handler
Addresses == { "", "1234 Main Street, Billings, MT" }

\* where the geocoding service may place an address
AddressPoints == { Coord(10, 5), Coord(0, 0), Coord(205, 12) }

\* where the geocoding service places the zip codes and cities of the territories
Place(q) ==
  CASE q = "59101" -> Coord(0, 0)
    [] q = "59102" -> Coord(40, 0)
    [] q = "59105" -> Coord(0, 40)
    [] q = "59106" -> Coord(40, 40)
    [] q = "59044" -> Coord(20, 60)
    [] q = "59037" -> Coord(90, 90)
    [] q = "Billings, MT" -> Coord(20, 20)
    [] q = "Laurel, MT" -> Coord(20, -10)
    [] q = "Lockwood, MT" -> Coord(30, 30)
    [] q = "Shepherd, MT" -> Coord(50, 50)
    [] q = "82801" -> Coord(200, 0)
    [] q = "82832" -> Coord(210, 10)
    [] q = "Sheridan" -> Coord(205, 30)
    [] q = "Cody, WY" -> Coord(0, 12)
    [] q = "Powell, WY" -> Coord(310, 310)
    [] q = "59715" -> Coord(0, -10)
    [] q = "59718" -> Coord(30, 0)
    [] q = "Bozeman, MT" -> Coord(0, 30)
    [] OTHER -> Coord(500, 500)

Candidates(q) == IF q \in Addresses THEN AddressPoints ELSE { Place(q) }

\* outcomes of one lookup at the geocoding service:
\* a network failure, a non-success status, zero results, or a first candidate
GeoFailures == { [net |-> TRUE], [ok |-> FALSE, status |-> 500], [ok |-> TRUE, data |-> << >>] }

GeoAnswers(q) == GeoFailures \cup { [ok |-> TRUE, data |-> << p >>] : p \in Candidates(q) }

\* territory records of the territories response, without their id
TerritoryShapes ==
  { [active |-> TRUE,  zip_codes |-> << "59101", "59102", "59105", "59106", "59044", "59037" >>,
     cities |-> << "Billings", "Laurel", "Lockwood", "Shepherd" >>, states |-> << "MT" >>],
    [active |-> TRUE,  zip_codes |-> << "82801", "82832" >>,
     cities |-> << "Sheridan" >>],
    [active |-> TRUE],
    [active |-> TRUE,  zip_codes |-> << >>,
     cities |-> << "Cody", "Powell" >>, states |-> << "WY", "MT" >>],
    [active |-> FALSE, zip_codes |-> << "59715", "59718" >>,
     cities |-> << "Bozeman" >>, states |-> << "MT" >>] }

\* a Territory: a shape under the id of its place in the response
MkTerritory(n, shape) == [id |-> n] @@ shape

TerritoryLists ==
  UNION { { [n \in 1..len |-> MkTerritory(n, f[n])] : f \in [1..len -> TerritoryShapes] }
          : len \in 0..MaxTerritories }

\* outcomes of the territories request: a network failure, a non-success
\* status with its body text, a success whose body has no results, a success
FetchAnswers ==
  { [net |-> TRUE],
    [ok |-> FALSE, status |-> 401, text |-> "{\"error\": \"Invalid API key\"}"],
    [ok |-> FALSE, status |-> 500, text |-> "Internal Server Error"],
    [ok |-> TRUE, json |-> None] }
  \cup { [ok |-> TRUE, json |-> [results |-> l]] : l \in TerritoryLists }

\* arguments of a direct makeZenbookerRequest call, as the other tools make it
Endpoints == { "/territories", "/customers", "/jobs/123", "/invoices",
               "/scheduling/available-appointments?limit=10", "" }

Methods == { "GET", "POST", "PATCH", "DELETE" }

Bodies == { None, [first_name |-> "John"] }

Has(record, field) == field \in DOMAIN record

\* ----------------------------------------------------------- pure functions
\* JavaScript truthiness of an optional string
Truthy(s) == s # Absent /\ s[1] # ""

Min(a, b) == IF a < b THEN a ELSE b

\* geocodeAddress without its check of response.ok
geocodeAddress_noStatusCheck(addr, ans) ==
  IF "net" \in DOMAIN ans
    THEN [threw |-> TRUE, message |-> "Geocoding failed: " \o "fetch failed"]
  ELSE IF ~ans.ok
    THEN [threw |-> FALSE, value |-> Coord(0, 0)]
  ELSE IF Len(ans.data) = 0
    THEN [threw |-> TRUE, message |-> "Geocoding failed: " \o "Could not geocode address: " \o addr]
  ELSE [threw |-> FALSE, value |-> ans.data[1]]

\* geocodeAddress after its fetch has settled with answer ans
geocodeAddress(addr, ans) ==
  IF "net" \in DOMAIN ans
    THEN [threw |-> TRUE, message |-> "Geocoding failed: " \o "fetch failed"]
  ELSE IF ~ans.ok
    THEN [threw |-> TRUE, message |-> "Geocoding failed: " \o "Geocoding HTTP " \o ToString(ans.status)]
  ELSE IF Len(ans.data) = 0
    THEN [threw |-> TRUE, message |-> "Geocoding failed: " \o "Could not geocode address: " \o addr]
  ELSE [threw |-> FALSE, value |-> ans.data[1]]

\* makeZenbookerRequest up to its await: the missing-key error, or the fetch it issues
MissingKeyMessage == "Zenbooker API key is required. Please set the ZENBOOKER_API_KEY environment variable."

\* makeZenbookerRequest testing its key against undefined only
makeZenbookerRequest_undefinedOnly(endpoint, method, body, key) ==
  IF key = Absent
    THEN [threw |-> TRUE, message |-> MissingKeyMessage]
    ELSE [threw |-> FALSE,
          fetch |-> [service |-> "zenbooker",
                     url |-> "https://api.zenbooker.com/v1" \o endpoint,
                     method |-> method,
                     authorization |-> "Bearer " \o key[1],
                     body |-> IF body # None /\ method # "GET" THEN body ELSE None]]

makeZenbookerRequest(endpoint, method, body, key) ==
  IF ~Truthy(key)
    THEN [threw |-> TRUE, message |-> MissingKeyMessage]
    ELSE [threw |-> FALSE,
          fetch |-> [service |-> "zenbooker",
                     url |-> "https://api.zenbooker.com/v1" \o endpoint,
                     method |-> method,
                     authorization |-> "Bearer " \o key[1],
                     body |-> IF body # None /\ method # "GET" THEN body ELSE None]]

\* makeZenbookerRequest reporting the status without the body text
zenbookerResponse_noBody(ans) ==
  IF "net" \in DOMAIN ans
    THEN [threw |-> TRUE, message |-> "fetch failed"]
  ELSE IF ~ans.ok
    THEN [threw |-> TRUE, message |-> "Zenbooker API Error (" \o ToString(ans.status) \o ")"]
  ELSE [threw |-> FALSE, value |-> ans.json]

\* makeZenbookerRequest after its fetch has settled with answer ans
zenbookerResponse(ans) ==
  IF "net" \in DOMAIN ans
    THEN [threw |-> TRUE, message |-> "fetch failed"]
  ELSE IF ~ans.ok
    THEN [threw |-> TRUE, message |-> "Zenbooker API Error (" \o ToString(ans.status) \o "): " \o ans.text]
  ELSE [threw |-> FALSE, value |-> ans.json]

\* the query string of a city lookup
cityAddress(territory, city) ==
  IF Has(territory, "states") /\ Len(territory.states) > 0 /\ territory.states[1] # ""
    THEN city \o ", " \o territory.states[1]
    ELSE city

\* the four corners pushed when fewer than three points were geocoded
SquareCorners(c) ==
  << Coord(c.latitude + offset, c.longitude + offset),
     Coord(c.latitude + offset, c.longitude - offset),
     Coord(c.latitude - offset, c.longitude - offset),
     Coord(c.latitude - offset, c.longitude + offset) >>

\* the fallback applied whenever a center is known
ApplyFallback_always(b, c) ==
  IF c # None THEN b \o SquareCorners(c) ELSE b

\* createTerritoryBoundaries once its lookups are over: the fallback and the return value
ApplyFallback(b, c) ==
  IF Len(b) < MinPolygon /\ c # None THEN b \o SquareCorners(c) ELSE b

\* a territory without any geocoded point given a default center
TerritoryWithBoundaries_defaultCenter(territory, b, c) ==
  [territory |-> territory,
   boundaries |-> IF Len(ApplyFallback(b, c)) >= MinPolygon THEN ApplyFallback(b, c) ELSE None,
   center |-> IF c = None THEN Coord(0, 0) ELSE c]

TerritoryWithBoundaries(territory, b, c) ==
  [territory |-> territory,
   boundaries |-> IF Len(ApplyFallback(b, c)) >= MinPolygon THEN ApplyFallback(b, c) ELSE None,
   center |-> c]

\* geolib isPointInPolygon: ray casting over the edges (j, i), j the vertex before i
EdgeCrosses(point, vi, vj) ==
  /\ \/ (vi.longitude <= point.longitude /\ point.longitude < vj.longitude)
     \/ (vj.longitude <= point.longitude /\ point.longitude < vi.longitude)
  /\ LET dx == vj.longitude - vi.longitude
         dy == vj.latitude - vi.latitude
         lhs == (point.latitude - vi.latitude) * dx
         rhs == dy * (point.longitude - vi.longitude)
     IN IF dx > 0 THEN lhs < rhs ELSE lhs > rhs

\* the ray cast over the chain of edges without the edge that closes the polygon
isPointInPolygon_openChain(point, polygon) ==
  LET n == Len(polygon)
      crossings == { i \in 2..n : EdgeCrosses(point, polygon[i], polygon[i - 1]) }
  IN Cardinality(crossings) % 2 = 1

isPointInPolygon(point, polygon) ==
  LET n == Len(polygon)
      prev(i) == IF i = 1 THEN n ELSE i - 1
      crossings == { i \in 1..n : EdgeCrosses(point, polygon[i], polygon[prev(i)]) }
  IN Cardinality(crossings) % 2 = 1

\* geolib getDistance, on the planar grid: squared distance in grid units
getDistance(a, b) ==
  (a.latitude - b.latitude) * (a.latitude - b.latitude)
  + (a.longitude - b.longitude) * (a.longitude - b.longitude)

\* the response object of the handler
Response(addr, coords, covered, closest, res) ==
  [address |-> addr,
   coordinates |-> coords,
   coverage_status |-> IF covered # None THEN "covered" ELSE "not_covered",
   covered_by_territory |->
     IF covered # None
       THEN [id |-> covered.territory.id]
            @@ [f \in DOMAIN covered.territory \ { "id", "active" } |-> covered.territory[f]]
       ELSE None,
   closest_territory |->
     IF closest # None
       THEN [id |-> closest.territory.id, distance_meters |-> closest.distance]
       ELSE None,
   all_territories_checked |-> Len(res),
   territories_analysis |-> res]

\* the two results the handler returns
CoverageResult(response) == [content |-> << [type |-> "text", text |-> response] >>]

\* an error result that keeps fields of the response
ErrorResult_mixed(message) ==
  [content |-> << [type |-> "text",
                   text |-> [error |-> "Error checking territory coverage: " \o message,
                             coverage_status |-> "not_covered"]] >>,
   isError |-> TRUE]

ErrorResult(message) ==
  [content |-> << [type |-> "text",
                   text |-> [error |-> "Error checking territory coverage: " \o message]] >>,
   isError |-> TRUE]

VARIABLES
  req,               \* arguments of a direct makeZenbookerRequest call
  reqOut,            \* what that call threw or returned, or None
  addrAnswer,        \* history: what the address lookup settled with
  fetched,           \* history: what the territories request settled with
  examined,          \* history: per territory examined, whether its boundaries held the point
  apiKey,           \* handler argument apiKey
  address,           \* params.address
  pc,                \* where the handler is
  calls,             \* every outbound network call issued so far, in order
  pending,           \* the call in flight, or None
  addressCoords,
  territories,       \* territoriesResponse.results
  ti,                \* place of the loop in territories
  boundaries,        \* createTerritoryBoundaries: boundaries
  center,            \* createTerritoryBoundaries: center
  k,                 \* place of the inner loop over zip codes or cities
  geocoded,          \* history: the points geocoded for this territory, in order
  twb,               \* territoryWithBoundaries, once returned
  results,
  coveredByTerritory,
  closestTerritory,
  result,            \* the ToolResult returned, or None
  globalApiKey,      \* the module variable set by ZenbookerMCP.setApiKey
  world,             \* two invocations: what the network answers, per query
  proc,              \* two invocations: the locals of each
  entries,           \* MemorySystem.entries, in insertion order
  violations,        \* MemorySystem.rules: violations of the rule recorded against
  now,               \* Date.now()
  claimLog,          \* history: the ids logClaim returned, in order
  settled            \* history: the logged ids verifyClaim was called on

\* the variables of the other parts of the program
extVars == << globalApiKey, world, proc, entries, violations, now, claimLog, settled >>

\* the variables of one coverage check and of one direct request
coverageVars == << req, reqOut, addrAnswer, fetched, examined, apiKey, address, pc, calls, pending,
                   addressCoords, territories, ti, boundaries, center, k, geocoded, twb, results,
                   coveredByTerritory, closestTerritory, result >>

vars == << coverageVars, extVars >>

reqVars == << req, reqOut >>

histVars == << addrAnswer, fetched, examined >>

loopVars == << boundaries, center, k, geocoded, twb, results, coveredByTerritory,
               closestTerritory, ti >>

\* ------------------------------------------------------------------- Init
Init ==
  /\ req = None
  /\ reqOut = None
  /\ addrAnswer = None
  /\ fetched = None
  /\ examined = << >>
  /\ apiKey \in ApiKeys
  /\ address \in Addresses
  /\ pc = "start"
  /\ calls = << >>
  /\ pending = None
  /\ addressCoords = None
  /\ territories = << >>
  /\ ti = 0
  /\ boundaries = << >>
  /\ center = None
  /\ k = 0
  /\ geocoded = << >>
  /\ twb = None
  /\ results = << >>
  /\ coveredByTerritory = None
  /\ closestTerritory = None
  /\ result = None
  /\ globalApiKey = Absent
  /\ world = None
  /\ proc = << >>
  /\ entries = << >>
  /\ violations = 0
  /\ now = 0
  /\ claimLog = << >>
  /\ settled = { }

\* a lookup at the geocoding service, made for territory terr (0: the address)
GeoCall(q, terr) == [service |-> "geocode", q |-> q, terr |-> terr]

Issue(call) ==
  /\ pending = None
  /\ calls' = Append(calls, call)
  /\ pending' = call

\* the catch of the handler
Fail(message) ==
  /\ result' = ErrorResult(message)
  /\ pc' = "done"

\* ------------------------------------------------ checkTerritoryCoverage
\* handler entry: geocodeAddress(params.address) issues its fetch
Invoke ==
  /\ pc = "start"
  /\ Issue(GeoCall(address, 0))
  /\ pc' = "addr"
  /\ UNCHANGED << reqVars, histVars, apiKey, address, addressCoords, territories, loopVars, result >>
  /\ UNCHANGED extVars

\* the address lookup settles
AddressGeocoded ==
  /\ pc = "addr"
  /\ \E ans \in GeoAnswers(address) :
       LET r == geocodeAddress(address, ans) IN
       /\ addrAnswer' = ans
       /\ IF r.threw
            THEN Fail(r.message) /\ UNCHANGED addressCoords
            ELSE addressCoords' = r.value /\ pc' = "request" /\ UNCHANGED result
  /\ pending' = None
  /\ UNCHANGED << reqVars, fetched, examined, apiKey, address, calls, territories, loopVars >>
  /\ UNCHANGED extVars

\* makeZenbookerRequest("/territories", "GET", undefined, apiKey) up to its await
RequestTerritories ==
  /\ pc = "request"
  /\ LET r == makeZenbookerRequest("/territories", "GET", None, apiKey) IN
     IF r.threw
       THEN Fail(r.message) /\ UNCHANGED << calls, pending >>
       ELSE Issue(r.fetch) /\ pc' = "fetch" /\ UNCHANGED result
  /\ UNCHANGED << reqVars, histVars, apiKey, address, addressCoords, territories, loopVars >>
  /\ UNCHANGED extVars

\* the territories request settles; the loop variables are initialised
TerritoriesFetched ==
  /\ pc = "fetch"
  /\ \E ans \in FetchAnswers :
       LET r == zenbookerResponse(ans) IN
       /\ fetched' = ans
       /\ IF r.threw
            THEN Fail(r.message) /\ UNCHANGED << territories, ti >>
          ELSE IF r.value = None
            THEN Fail("Cannot read properties of null (reading 'results')")
                 /\ UNCHANGED << territories, ti >>
          ELSE /\ territories' = r.value.results
               /\ ti' = 1
               /\ pc' = "loop"
               /\ UNCHANGED result
  /\ pending' = None
  /\ results' = << >>
  /\ coveredByTerritory' = None
  /\ closestTerritory' = None
  /\ UNCHANGED << reqVars, addrAnswer, examined, apiKey, address, calls, addressCoords,
                  boundaries, center, k, geocoded, twb >>
  /\ UNCHANGED extVars

\* no territory is skipped
IsSkipped_never(territory) == FALSE

\* if (!territory.active) continue
IsSkipped(territory) == ~territory.active

SkipInactive ==
  /\ pc = "loop"
  /\ ti <= Len(territories)
  /\ IsSkipped(territories[ti])
  /\ ti' = ti + 1
  /\ UNCHANGED << reqVars, histVars, apiKey, address, pc, calls, pending, addressCoords, territories,
                  boundaries, center, k, geocoded, twb, results, coveredByTerritory,
                  closestTerritory, result >>
  /\ UNCHANGED extVars

\* createTerritoryBoundaries(territory) is entered
BeginTerritory ==
  /\ pc = "loop"
  /\ ti <= Len(territories)
  /\ ~IsSkipped(territories[ti])
  /\ boundaries' = << >>
  /\ center' = None
  /\ geocoded' = << >>
  /\ twb' = None
  /\ k' = 1
  /\ pc' = "zips"
  /\ UNCHANGED << reqVars, histVars, apiKey, address, calls, pending, addressCoords, territories, ti,
                  results, coveredByTerritory, closestTerritory, result >>
  /\ UNCHANGED extVars

\* the zip codes run over from the last to the first
ZipSlice_reversed(territory) ==
  IF Has(territory, "zip_codes") /\ Len(territory.zip_codes) > 0
    THEN LET n == Min(ZipLimit, Len(territory.zip_codes))
         IN [i \in 1..n |-> territory.zip_codes[n + 1 - i]]
    ELSE << >>

\* the zip codes the loop runs over: territory.zip_codes.slice(0, 5)
ZipSlice(territory) ==
  IF Has(territory, "zip_codes") /\ Len(territory.zip_codes) > 0
    THEN SubSeq(territory.zip_codes, 1, Min(ZipLimit, Len(territory.zip_codes)))
    ELSE << >>

\* the cities run over however many points the zip codes gave
CitySlice_always(territory, b) ==
  IF Has(territory, "cities") /\ Len(territory.cities) > 0
    THEN SubSeq(territory.cities, 1, Min(CityLimit, Len(territory.cities)))
    ELSE << >>

\* the cities the loop runs over, entered with b geocoded points: territory.cities.slice(0, 3)
CitySlice(territory, b) ==
  IF Has(territory, "cities") /\ Len(territory.cities) > 0 /\ Len(b) < MinPolygon
    THEN SubSeq(territory.cities, 1, Min(CityLimit, Len(territory.cities)))
    ELSE << >>

\* the lookup of the next zip code is issued
ZipIssue ==
  /\ pc = "zips"
  /\ k <= Len(ZipSlice(territories[ti]))
  /\ Issue(GeoCall(ZipSlice(territories[ti])[k], ti))
  /\ pc' = "zipWait"
  /\ UNCHANGED << reqVars, histVars, apiKey, address, addressCoords, territories, loopVars, result >>
  /\ UNCHANGED extVars

\* center taken from every point geocoded
NextCenter_latest(c, value) == value

\* if (!center) center = coords
NextCenter(c, value) == IF c = None THEN value ELSE c

\* a failed lookup for a boundary point reaching the catch of the handler
PointGeocoded_rethrow(q, back) ==
  /\ \E ans \in GeoAnswers(q) :
       LET r == geocodeAddress(q, ans) IN
       IF r.threw
         THEN Fail(r.message) /\ UNCHANGED << boundaries, center, geocoded >>
         ELSE /\ boundaries' = Append(boundaries, r.value)
              /\ center' = NextCenter(center, r.value)
              /\ geocoded' = Append(geocoded, r.value)
              /\ pc' = back
              /\ UNCHANGED result
  /\ pending' = None
  /\ k' = k + 1
  /\ UNCHANGED << reqVars, histVars, apiKey, address, calls, addressCoords, territories, ti, twb,
                  results, coveredByTerritory, closestTerritory >>
  /\ UNCHANGED extVars

\* a lookup made for a boundary point settles: a failure is warned about and skipped
PointGeocoded(q, back) ==
  /\ \E ans \in GeoAnswers(q) :
       LET r == geocodeAddress(q, ans) IN
       IF r.threw
         THEN UNCHANGED << boundaries, center, geocoded >>
         ELSE /\ boundaries' = Append(boundaries, r.value)
              /\ center' = NextCenter(center, r.value)
              /\ geocoded' = Append(geocoded, r.value)
  /\ pending' = None
  /\ k' = k + 1
  /\ pc' = back
  /\ UNCHANGED << reqVars, histVars, apiKey, address, calls, addressCoords, territories, ti, twb,
                  results, coveredByTerritory, closestTerritory, result >>
  /\ UNCHANGED extVars

ZipGeocoded ==
  /\ pc = "zipWait"
  /\ PointGeocoded(pending.q, "zips")

\* the zip loop is over (or was not entered); the city condition is evaluated once
ZipsDone ==
  /\ pc = "zips"
  /\ k > Len(ZipSlice(territories[ti]))
  /\ k' = 1
  /\ pc' = IF Len(CitySlice(territories[ti], boundaries)) > 0 THEN "cities" ELSE "synth"
  /\ UNCHANGED << reqVars, histVars, apiKey, address, calls, pending, addressCoords, territories, ti,
                  boundaries, center, geocoded, twb, results, coveredByTerritory,
                  closestTerritory, result >>
  /\ UNCHANGED extVars

\* the lookup of the next city is issued; the slice was fixed when the loop was entered
CityIssue ==
  /\ pc = "cities"
  /\ k <= Len(CitySlice(territories[ti], << >>))
  /\ Issue(GeoCall(cityAddress(territories[ti], CitySlice(territories[ti], << >>)[k]), ti))
  /\ pc' = "cityWait"
  /\ UNCHANGED << reqVars, histVars, apiKey, address, addressCoords, territories, loopVars, result >>
  /\ UNCHANGED extVars

CityGeocoded ==
  /\ pc = "cityWait"
  /\ PointGeocoded(pending.q, "cities")

CitiesDone ==
  /\ pc = "cities"
  /\ k > Len(CitySlice(territories[ti], << >>))
  /\ pc' = "synth"
  /\ UNCHANGED << reqVars, histVars, apiKey, address, calls, pending, addressCoords, territories,
                  loopVars, result >>
  /\ UNCHANGED extVars

\* closest territory tracking with the comparison turned around
UpdateClosest_farthest(closest, t, coords) ==
  IF t.center # None
       /\ (closest = None \/ getDistance(coords, t.center) > closest.distance)
    THEN [territory |-> t.territory, distance |-> getDistance(coords, t.center)]
    ELSE closest

\* closest territory tracking; of the territory object held, the handler reads
\* only the fields of the territory, which is what is kept here
UpdateClosest(closest, t, coords) ==
  IF t.center # None
       /\ (closest = None \/ getDistance(coords, t.center) < closest.distance)
    THEN [territory |-> t.territory, distance |-> getDistance(coords, t.center)]
    ELSE closest

\* the entry pushed on results
AnalysisEntry(t, coords) ==
  [territory_id |-> t.territory.id,
   is_covered |-> FALSE,
   distance_meters |-> IF t.center # None THEN Some(getDistance(coords, t.center)) ELSE Absent]

\* every territory with boundaries taken as covering
Covers_anyPolygon(t, coords) ==
  /\ t.boundaries # None
  /\ Len(t.boundaries) >= MinPolygon

\* is the address inside the boundaries returned for the territory
Covers(t, coords) ==
  /\ t.boundaries # None
  /\ Len(t.boundaries) >= MinPolygon
  /\ isPointInPolygon(coords, t.boundaries)

\* createTerritoryBoundaries returns; containment, closest tracking, results.push
TerritoryExamined ==
  /\ pc = "synth"
  /\ LET t == TerritoryWithBoundaries(territories[ti], boundaries, center) IN
     /\ twb' = t
     /\ IF Covers(t, addressCoords)
          THEN /\ coveredByTerritory' = t
               /\ result' = CoverageResult(Response(address, addressCoords, t,
                                                    closestTerritory, results))
               /\ pc' = "done"
               /\ UNCHANGED << closestTerritory, results, ti >>
          ELSE /\ closestTerritory' = UpdateClosest(closestTerritory, t, addressCoords)
               /\ results' = Append(results, AnalysisEntry(t, addressCoords))
               /\ ti' = ti + 1
               /\ pc' = "loop"
               /\ UNCHANGED << coveredByTerritory, result >>
     /\ examined' = Append(examined,
                            [id |-> ti,
                             inside |-> IF t.boundaries = None THEN FALSE
                                        ELSE isPointInPolygon(addressCoords, t.boundaries)])
  /\ boundaries' = << >>
  /\ center' = None
  /\ UNCHANGED << reqVars, addrAnswer, fetched, apiKey, address, calls, pending, addressCoords,
                  territories, k, geocoded >>
  /\ UNCHANGED extVars

\* the handler never getting past the loop
Finish_never == FALSE

\* the loop is over without a covering territory: the response is formatted
Finish ==
  /\ pc = "loop"
  /\ ti > Len(territories)
  /\ result' = CoverageResult(Response(address, addressCoords, coveredByTerritory,
                                       closestTerritory, results))
  /\ pc' = "done"
  /\ UNCHANGED << reqVars, histVars, apiKey, address, calls, pending, addressCoords, territories,
                  loopVars >>
  /\ UNCHANGED extVars

Next ==
  \/ Invoke
  \/ AddressGeocoded
  \/ RequestTerritories
  \/ TerritoriesFetched
  \/ SkipInactive
  \/ BeginTerritory
  \/ ZipIssue
  \/ ZipGeocoded
  \/ ZipsDone
  \/ CityIssue
  \/ CityGeocoded
  \/ CitiesDone
  \/ TerritoryExamined
  \/ Finish

Spec == Init /\ [][Next]_vars

\* every await of the handler is resumed once its call has settled, and every
\* call settles: a step that can be taken is taken
InitLive ==
  /\ Init
  /\ apiKey = Some("zb-key")
  /\ address = "1234 Main Street, Billings, MT"

SpecLive == InitLive /\ [][Next]_vars /\ WF_vars(Next)

\* ------------------------------------- makeZenbookerRequest called directly
\* any other tool handler: one call of the REST client with its own arguments
InitRequest ==
  /\ req \in [endpoint : Endpoints, method : Methods, body : Bodies, apiKey : ApiKeys]
  /\ reqOut = None
  /\ addrAnswer = None
  /\ fetched = None
  /\ examined = << >>
  /\ apiKey = Absent
  /\ address = ""
  /\ pc = "reqStart"
  /\ calls = << >>
  /\ pending = None
  /\ addressCoords = None
  /\ territories = << >>
  /\ ti = 0
  /\ boundaries = << >>
  /\ center = None
  /\ k = 0
  /\ geocoded = << >>
  /\ twb = None
  /\ results = << >>
  /\ coveredByTerritory = None
  /\ closestTerritory = None
  /\ result = None
  /\ globalApiKey = Absent
  /\ world = None
  /\ proc = << >>
  /\ entries = << >>
  /\ violations = 0
  /\ now = 0
  /\ claimLog = << >>
  /\ settled = { }

\* ZenbookerMCP.setApiKey(key), before the call is made
setApiKey ==
  /\ pc = "reqStart"
  /\ \E key \in ApiKeys : globalApiKey' = key
  /\ UNCHANGED << coverageVars, world, proc, entries, violations, now, claimLog, settled >>

\* the call up to its await: the missing-key error is thrown, or the fetch is issued
CallRequest ==
  /\ pc = "reqStart"
  /\ LET r == makeZenbookerRequest(req.endpoint, req.method, req.body, req.apiKey) IN
     IF r.threw
       THEN reqOut' = r /\ pc' = "reqDone" /\ UNCHANGED << calls, pending >>
       ELSE Issue(r.fetch) /\ pc' = "reqWait" /\ UNCHANGED reqOut
  /\ UNCHANGED << req, histVars, apiKey, address, addressCoords, territories, loopVars, result >>
  /\ UNCHANGED extVars

\* the fetch settles: the error of a non-success status, or the parsed body
RequestSettled ==
  /\ pc = "reqWait"
  /\ \E ans \in FetchAnswers :
       /\ fetched' = ans
       /\ reqOut' = zenbookerResponse(ans)
  /\ pending' = None
  /\ pc' = "reqDone"
  /\ UNCHANGED << req, addrAnswer, examined, apiKey, address, calls, addressCoords,
                  territories, loopVars, result >>
  /\ UNCHANGED extVars

NextRequest ==
  \/ setApiKey
  \/ CallRequest
  \/ RequestSettled

SpecRequest == InitRequest /\ [][NextRequest]_vars

\* ------------------------------------------- two coverage checks at once
\* Two invocations of the handler run on the one event loop. Each has the
\* locals of its own call of the handler and of createTerritoryBoundaries; the
\* network answers every query string the same way whoever asks.
Invocations == { 1, 2 }

TwoAddresses == { "1234 Main Street, Billings, MT", "5 Coffeen Ave, Sheridan, WY" }

AddressPlace(a) ==
  IF a = "1234 Main Street, Billings, MT" THEN Coord(10, 5) ELSE Coord(205, 12)

\* the territories responses of the worlds
TwoTerritoryLists ==
  { l \in TerritoryLists :
      /\ Len(l) = 2
      /\ Has(l[1], "zip_codes") /\ Has(l[2], "zip_codes")
      /\ l[1] # [id |-> 1] @@ [f \in DOMAIN l[2] \ { "id" } |-> l[2][f]]
      /\ l[1].active }

\* the query strings the geocoding service has no candidate for
FailingSets ==
  { { },
    { "59101", "59105", "59106", "59044" },
    { "59102", "59105", "59106", "59044", "Billings, MT", "82801" },
    { "5 Coffeen Ave, Sheridan, WY", "82832", "Cody, WY" } }

Worlds == [territories : TwoTerritoryLists, failing : FailingSets]

\* what the geocoding service answers to query q
WorldGeo(q) ==
  IF q \in world.failing
    THEN [ok |-> TRUE, data |-> << >>]
    ELSE [ok |-> TRUE, data |-> << IF q \in TwoAddresses THEN AddressPlace(q) ELSE Place(q) >>]

InitTwo ==
  /\ world \in Worlds
  /\ proc \in [Invocations ->
                [pc : { "start" }, address : TwoAddresses, apiKey : { Some("zb-key") },
                 addressCoords : { None }, territories : { << >> }, ti : { 0 },
                 boundaries : { << >> }, center : { None }, k : { 0 },
                 results : { << >> }, coveredByTerritory : { None },
                 closestTerritory : { None }, result : { None }]]
  /\ req = None
  /\ reqOut = None
  /\ addrAnswer = None
  /\ fetched = None
  /\ examined = << >>
  /\ apiKey = Absent
  /\ address = ""
  /\ pc = "two"
  /\ calls = << >>
  /\ pending = None
  /\ addressCoords = None
  /\ territories = << >>
  /\ ti = 0
  /\ boundaries = << >>
  /\ center = None
  /\ k = 0
  /\ geocoded = << >>
  /\ twb = None
  /\ results = << >>
  /\ coveredByTerritory = None
  /\ closestTerritory = None
  /\ result = None
  /\ globalApiKey = Absent
  /\ entries = << >>
  /\ violations = 0
  /\ now = 0
  /\ claimLog = << >>
  /\ settled = { }

\* invocation p goes on with locals r; nothing else changes
Becomes(p, r) ==
  /\ proc' = [proc EXCEPT ![p] = r]
  /\ UNCHANGED << coverageVars, globalApiKey, world, entries, violations, now, claimLog, settled >>

\* the catch of the handler of invocation p
TwoFail(p, message) ==
  Becomes(p, [proc[p] EXCEPT !.result = ErrorResult(message), !.pc = "done"])

\* center held in one variable for all invocations
TwoCenter_shared(p) == proc[1].center

\* `let center` of the createTerritoryBoundaries call of invocation p
TwoCenter(p) == proc[p].center

\* results held in one variable for all invocations
TwoResults_shared(p) == proc[1].results

\* `const results` of the handler call of invocation p
TwoResults(p) == proc[p].results

TwoInvoke(p) ==
  /\ proc[p].pc = "start"
  /\ Becomes(p, [proc[p] EXCEPT !.pc = "addr"])

\* the address lookup settles; the territories request is issued
TwoAddressGeocoded(p) ==
  /\ proc[p].pc = "addr"
  /\ LET r == geocodeAddress(proc[p].address, WorldGeo(proc[p].address))
         rq == makeZenbookerRequest("/territories", "GET", None, proc[p].apiKey)
     IN IF r.threw THEN TwoFail(p, r.message)
        ELSE IF rq.threw THEN TwoFail(p, rq.message)
        ELSE Becomes(p, [proc[p] EXCEPT !.addressCoords = r.value, !.pc = "fetch"])

\* the territories request settles
TwoTerritoriesFetched(p) ==
  /\ proc[p].pc = "fetch"
  /\ Becomes(p, [proc[p] EXCEPT !.territories = world.territories, !.ti = 1,
                                !.results = << >>, !.coveredByTerritory = None,
                                !.closestTerritory = None, !.pc = "loop"])

TwoSkipInactive(p) ==
  /\ proc[p].pc = "loop"
  /\ proc[p].ti <= Len(proc[p].territories)
  /\ IsSkipped(proc[p].territories[proc[p].ti])
  /\ Becomes(p, [proc[p] EXCEPT !.ti = @ + 1])

TwoBeginTerritory(p) ==
  /\ proc[p].pc = "loop"
  /\ proc[p].ti <= Len(proc[p].territories)
  /\ ~IsSkipped(proc[p].territories[proc[p].ti])
  /\ Becomes(p, [proc[p] EXCEPT !.boundaries = << >>, !.center = None, !.k = 1, !.pc = "zips"])

\* the query strings of the loop invocation p is in
TwoQueries(p) ==
  LET territory == proc[p].territories[proc[p].ti] IN
  IF proc[p].pc \in { "zips", "zipWait" }
    THEN ZipSlice(territory)
    ELSE [i \in 1..Len(CitySlice(territory, << >>)) |->
            cityAddress(territory, CitySlice(territory, << >>)[i])]

\* the next lookup of the zip or city loop is issued
TwoLookupIssue(p) ==
  /\ proc[p].pc \in { "zips", "cities" }
  /\ proc[p].k <= Len(TwoQueries(p))
  /\ Becomes(p, [proc[p] EXCEPT !.pc = IF @ = "zips" THEN "zipWait" ELSE "cityWait"])

\* the lookup settles: the point is pushed and the first point becomes the center
TwoLookupSettled(p) ==
  /\ proc[p].pc \in { "zipWait", "cityWait" }
  /\ LET q == TwoQueries(p)[proc[p].k]
         r == geocodeAddress(q, WorldGeo(q))
         back == IF proc[p].pc = "zipWait" THEN "zips" ELSE "cities"
     IN IF r.threw
          THEN Becomes(p, [proc[p] EXCEPT !.k = @ + 1, !.pc = back])
          ELSE Becomes(p, [proc[p] EXCEPT !.boundaries = Append(@, r.value),
                                          !.center = IF TwoCenter(p) = None THEN r.value
                                                     ELSE TwoCenter(p),
                                          !.k = @ + 1, !.pc = back])

\* a loop is over: after the zip codes the city condition is evaluated once
TwoLoopDone(p) ==
  /\ proc[p].pc \in { "zips", "cities" }
  /\ proc[p].k > Len(TwoQueries(p))
  /\ Becomes(p, [proc[p] EXCEPT
                   !.k = 1,
                   !.pc = IF @ = "zips"
                             /\ Len(CitySlice(proc[p].territories[proc[p].ti],
                                              proc[p].boundaries)) > 0
                          THEN "cities" ELSE "synth"])

\* createTerritoryBoundaries returns; containment, closest tracking, results.push
TwoTerritoryExamined(p) ==
  /\ proc[p].pc = "synth"
  /\ LET t == TerritoryWithBoundaries(proc[p].territories[proc[p].ti],
                                      proc[p].boundaries, TwoCenter(p))
         coords == proc[p].addressCoords
     IN IF Covers(t, coords)
          THEN Becomes(p, [proc[p] EXCEPT
                 !.coveredByTerritory = t,
                 !.result = CoverageResult(Response(proc[p].address, coords, t,
                                                    proc[p].closestTerritory, TwoResults(p))),
                 !.boundaries = << >>, !.center = None, !.pc = "done"])
          ELSE Becomes(p, [proc[p] EXCEPT
                 !.closestTerritory = UpdateClosest(@, t, coords),
                 !.results = Append(TwoResults(p), AnalysisEntry(t, coords)),
                 !.ti = @ + 1,
                 !.boundaries = << >>, !.center = None, !.pc = "loop"])

TwoFinish(p) ==
  /\ proc[p].pc = "loop"
  /\ proc[p].ti > Len(proc[p].territories)
  /\ Becomes(p, [proc[p] EXCEPT
       !.result = CoverageResult(Response(proc[p].address, proc[p].addressCoords,
                                          proc[p].coveredByTerritory,
                                          proc[p].closestTerritory, TwoResults(p))),
       !.pc = "done"])

NextTwo ==
  \E p \in Invocations :
    \/ TwoInvoke(p)
    \/ TwoAddressGeocoded(p)
    \/ TwoTerritoriesFetched(p)
    \/ TwoSkipInactive(p)
    \/ TwoBeginTerritory(p)
    \/ TwoLookupIssue(p)
    \/ TwoLookupSettled(p)
    \/ TwoLoopDone(p)
    \/ TwoTerritoryExamined(p)
    \/ TwoFinish(p)

SpecTwo == InitTwo /\ [][NextTwo]_vars

\* ------------------------------------------ one coverage check on its own
\* the points the lookups of the query strings qs give, in order
Found(qs) ==
  LET ok == SelectSeq(qs, LAMBDA q : ~geocodeAddress(q, WorldGeo(q)).threw)
  IN [i \in 1..Len(ok) |-> geocodeAddress(ok[i], WorldGeo(ok[i])).value]

\* createTerritoryBoundaries run from entry to return
AloneBoundaries(territory) ==
  LET bz == Found(ZipSlice(territory))
      cs == CitySlice(territory, bz)
      b == bz \o Found([i \in 1..Len(cs) |-> cityAddress(territory, cs[i])])
  IN TerritoryWithBoundaries(territory, b, IF Len(b) > 0 THEN b[1] ELSE None)

\* the loop of the handler from territory i on
RECURSIVE AloneScan(_, _, _, _, _)
AloneScan(addr, coords, i, closest, res) ==
  IF i > Len(world.territories)
    THEN CoverageResult(Response(addr, coords, None, closest, res))
  ELSE IF IsSkipped(world.territories[i])
    THEN AloneScan(addr, coords, i + 1, closest, res)
  ELSE LET t == AloneBoundaries(world.territories[i]) IN
       IF Covers(t, coords)
         THEN CoverageResult(Response(addr, coords, t, closest, res))
         ELSE AloneScan(addr, coords, i + 1, UpdateClosest(closest, t, coords),
                        Append(res, AnalysisEntry(t, coords)))

\* the handler run from entry to return with nothing else running
Alone(addr) ==
  LET r == geocodeAddress(addr, WorldGeo(addr)) IN
  IF r.threw THEN ErrorResult(r.message) ELSE AloneScan(addr, r.value, 1, None, << >>)

\* ---------------------------------------------------------- MemorySystem
\* what Math.random().toString(36).substr(2, 9) gives
Randoms == { "k3x9q1z7a", "p0o4m2n8b" }

Contents == { "API returns expected response format" }

Evidence == { "Confirmed by test results" }

CoreRules == { "no-unverified-claims", "ask-for-help", "evidence-required", "systematic-approach" }

\* the rule ids recordViolation is called with
RuleIds == { "no-unverified-claims", "not-a-rule" }

\* generateId when the clock reads t and the random string is r
generateId(t, r) == "mem_" \o ToString(t) \o "_" \o r

\* Map.set on the entries map m, kept in insertion order
MapSet(m, key, entry) ==
  IF \E i \in 1..Len(m) : m[i].key = key
    THEN [i \in 1..Len(m) |-> IF m[i].key = key THEN [key |-> key, entry |-> entry] ELSE m[i]]
    ELSE Append(m, [key |-> key, entry |-> entry])

MapKeys(m) == { m[i].key : i \in 1..Len(m) }

\* a pending entry as logClaim and logAssumption build it
PendingEntry(id, type, content) ==
  [id |-> id, timestamp |-> now, type |-> type, content |-> content,
   status |-> "pending", evidence |-> Absent]

InitMemory ==
  /\ entries = << >>
  /\ violations = [r \in CoreRules |-> 0]
  /\ now = 0
  /\ claimLog = << >>
  /\ settled = { }
  /\ req = None
  /\ reqOut = None
  /\ addrAnswer = None
  /\ fetched = None
  /\ examined = << >>
  /\ apiKey = Absent
  /\ address = ""
  /\ pc = "memory"
  /\ calls = << >>
  /\ pending = None
  /\ addressCoords = None
  /\ territories = << >>
  /\ ti = 0
  /\ boundaries = << >>
  /\ center = None
  /\ k = 0
  /\ geocoded = << >>
  /\ twb = None
  /\ results = << >>
  /\ coveredByTerritory = None
  /\ closestTerritory = None
  /\ result = None
  /\ globalApiKey = Absent
  /\ world = None
  /\ proc = << >>

\* a millisecond passes
Tick ==
  /\ pc = "memory"
  /\ now < MaxClock
  /\ now' = now + 1
  /\ UNCHANGED << coverageVars, globalApiKey, world, proc, entries, violations, claimLog, settled >>

logClaim ==
  /\ pc = "memory"
  /\ Len(claimLog) < MaxEntries
  /\ \E content \in Contents, r \in Randoms :
       LET id == generateId(now, r) IN
       /\ entries' = MapSet(entries, id, PendingEntry(id, "claim", content))
       /\ claimLog' = Append(claimLog, id)
  /\ UNCHANGED << coverageVars, globalApiKey, world, proc, violations, now, settled >>

logAssumption ==
  /\ pc = "memory"
  /\ Len(entries) < MaxEntries
  /\ \E content \in Contents, r \in Randoms :
       LET id == generateId(now, r) IN
       entries' = MapSet(entries, id, PendingEntry(id, "assumption", content))
  /\ UNCHANGED << coverageVars, globalApiKey, world, proc, violations, now, claimLog, settled >>

\* verifyClaim(claimId, evidence, success): an unknown id changes nothing
verifyClaim ==
  /\ pc = "memory"
  /\ \E claimId \in MapKeys(entries) \cup { "mem_0_unknown" }, evidence \in Evidence,
        success \in BOOLEAN :
       /\ entries' = [i \in 1..Len(entries) |->
                        IF entries[i].key = claimId
                          THEN [entries[i] EXCEPT
                                  !.entry.status = IF success THEN "verified" ELSE "failed",
                                  !.entry.evidence = Some(evidence)]
                          ELSE entries[i]]
       /\ settled' = settled \cup { i \in 1..Len(claimLog) :
                                      claimLog[i] = claimId /\ claimId \in MapKeys(entries) }
  /\ UNCHANGED << coverageVars, globalApiKey, world, proc, violations, now, claimLog >>

\* recordViolation(ruleId, context): the entry is stored under one generated
\* id and carries another
recordViolation ==
  /\ pc = "memory"
  /\ Len(entries) < MaxEntries
  /\ \E ruleId \in RuleIds, r1 \in Randoms, r2 \in Randoms :
       IF ruleId \in CoreRules
         THEN /\ violations[ruleId] < MaxEntries
              /\ violations' = [violations EXCEPT ![ruleId] = @ + 1]
              /\ entries' = MapSet(entries, generateId(now, r1),
                                   [id |-> generateId(now, r2), timestamp |-> now,
                                    type |-> "rule",
                                    content |-> "Violated rule: " \o ruleId,
                                    status |-> "violated", evidence |-> Absent])
         ELSE UNCHANGED << violations, entries >>
  /\ UNCHANGED << coverageVars, globalApiKey, world, proc, now, claimLog, settled >>

\* getUnverifiedClaims(): the pending entries of type claim, in map order
getUnverifiedClaims ==
  LET held == [i \in 1..Len(entries) |-> entries[i].entry] IN
  SelectSeq(held, LAMBDA e : e.type = "claim" /\ e.status = "pending")

NextMemory ==
  \/ Tick
  \/ logClaim
  \/ logAssumption
  \/ verifyClaim
  \/ recordViolation

SpecMemory == InitMemory /\ [][NextMemory]_vars

\* ------------------------------------------- the containment test alone
\* isPointInPolygon(addressCoords, boundaries) called on a polygon and on
\* each of its cyclic rotations in turn
VertexPoints == { Coord(a, b) : a \in { 0, 30 }, b \in { 0, 15, 30 } }

QueryPoints == { Coord(a, b) : a \in { 0, 15, 30 }, b \in { 0, 15, 30 } }

\* vertex lists of 3 to MaxVertices distinct points
Polygons ==
  UNION { { f \in [1..n -> VertexPoints] : \A i, j \in 1..n : i # j => f[i] # f[j] }
          : n \in 3..MaxVertices }

InitGeometry ==
  /\ boundaries \in Polygons
  /\ addressCoords \in QueryPoints
  /\ pc = "geoTest"
  /\ k = 0
  /\ examined = << >>
  /\ req = None
  /\ reqOut = None
  /\ addrAnswer = None
  /\ fetched = None
  /\ apiKey = Absent
  /\ address = ""
  /\ calls = << >>
  /\ pending = None
  /\ territories = << >>
  /\ ti = 0
  /\ center = None
  /\ geocoded = << >>
  /\ twb = None
  /\ results = << >>
  /\ coveredByTerritory = None
  /\ closestTerritory = None
  /\ result = None
  /\ globalApiKey = Absent
  /\ world = None
  /\ proc = << >>
  /\ entries = << >>
  /\ violations = 0
  /\ now = 0
  /\ claimLog = << >>
  /\ settled = { }

\* const isInside = isPointInPolygon(addressCoords, boundaries), after k rotations
TestContainment ==
  /\ pc = "geoTest"
  /\ examined' = Append(examined, [id |-> k, inside |-> isPointInPolygon(addressCoords, boundaries)])
  /\ pc' = "geoRotate"
  /\ UNCHANGED << reqVars, addrAnswer, fetched, apiKey, address, calls, pending, addressCoords,
                  territories, ti, boundaries, center, k, geocoded, twb, results,
                  coveredByTerritory, closestTerritory, result >>
  /\ UNCHANGED extVars

\* the same polygon is handed over starting from its next vertex
RotatePolygon ==
  /\ pc = "geoRotate"
  /\ k + 1 < Len(boundaries)
  /\ boundaries' = Tail(boundaries) \o << Head(boundaries) >>
  /\ k' = k + 1
  /\ pc' = "geoTest"
  /\ UNCHANGED << reqVars, histVars, apiKey, address, calls, pending, addressCoords,
                  territories, ti, center, geocoded, twb, results,
                  coveredByTerritory, closestTerritory, result >>
  /\ UNCHANGED extVars

NextGeometry ==
  \/ TestContainment
  \/ RotatePolygon

SpecGeometry == InitGeometry /\ [][NextGeometry]_vars

\* ------------------------------------------------- the Worker and its key
\* what env.ZENBOOKER_API_KEY may be: missing, empty, one of two keys
EnvKeys == { Absent, Some(""), Some("zb-key"), Some("zb-key-2") }

\* the global key left by a fetch that sets it whatever its env carries
fetchApiKey_always(envKey, global) == envKey

\* default.fetch: if (env.ZENBOOKER_API_KEY) ZenbookerMCP.setApiKey(env.ZENBOOKER_API_KEY)
fetchApiKey(envKey, global) == IF Truthy(envKey) THEN envKey ELSE global

\* getEnvironmentApiKey: this.env?.ZENBOOKER_API_KEY || globalApiKey
getEnvironmentApiKey(envKey, global) == IF Truthy(envKey) THEN envKey ELSE global

InitWorker ==
  /\ globalApiKey = Absent
  /\ apiKey = Absent
  /\ req = None
  /\ k = 0
  /\ pc = "worker"
  /\ reqOut = None
  /\ addrAnswer = None
  /\ fetched = None
  /\ examined = << >>
  /\ address = ""
  /\ calls = << >>
  /\ pending = None
  /\ addressCoords = None
  /\ territories = << >>
  /\ ti = 0
  /\ boundaries = << >>
  /\ center = None
  /\ geocoded = << >>
  /\ twb = None
  /\ results = << >>
  /\ coveredByTerritory = None
  /\ closestTerritory = None
  /\ result = None
  /\ world = None
  /\ proc = << >>
  /\ entries = << >>
  /\ violations = 0
  /\ now = 0
  /\ claimLog = << >>
  /\ settled = { }

\* what a step of the Worker leaves alone
WorkerFrame ==
  UNCHANGED << reqOut, histVars, address, pc, calls, pending, addressCoords, territories, ti,
               boundaries, center, geocoded, twb, results, coveredByTerritory,
               closestTerritory, result, world, proc, entries, violations, now, claimLog,
               settled >>

\* a request reaches default.fetch with its env
WorkerFetch ==
  /\ pc = "worker"
  /\ k < MaxRequests
  /\ \E envKey \in EnvKeys :
       /\ globalApiKey' = fetchApiKey(envKey, globalApiKey)
       /\ req' = [kind |-> "fetch", key |-> envKey]
  /\ k' = k + 1
  /\ UNCHANGED apiKey
  /\ WorkerFrame

\* a registered tool is invoked: the handler gets getEnvironmentApiKey()
ToolInvoked ==
  /\ pc = "worker"
  /\ k < MaxRequests
  /\ \E envKey \in EnvKeys :
       /\ apiKey' = getEnvironmentApiKey(envKey, globalApiKey)
       /\ req' = [kind |-> "tool", key |-> envKey]
  /\ k' = k + 1
  /\ UNCHANGED globalApiKey
  /\ WorkerFrame

\* ZenbookerMCP.setApiKey(key) called directly
WorkerSetApiKey ==
  /\ pc = "worker"
  /\ k < MaxRequests
  /\ \E key \in EnvKeys :
       /\ globalApiKey' = key
       /\ req' = [kind |-> "setApiKey", key |-> key]
  /\ k' = k + 1
  /\ UNCHANGED apiKey
  /\ WorkerFrame

NextWorker ==
  \/ WorkerFetch
  \/ ToolInvoked
  \/ WorkerSetApiKey

SpecWorker == InitWorker /\ [][NextWorker]_vars

\* ===================================================================== claims
\* the geocoding lookups issued for the territory at place n, in order
CallsFor(n) == SelectSeq(calls, LAMBDA c : c.service = "geocode" /\ c.terr = n)

Queries(cs) == [i \in 1..Len(cs) |-> cs[i].q]

ResponseOf(r) == r.content[1].text

CoverageFields ==
  { "address", "coordinates", "coverage_status", "covered_by_territory",
    "closest_territory", "all_territories_checked", "territories_analysis" }

IsErrorShape(r) ==
  /\ r # None
  /\ DOMAIN r = { "content", "isError" }
  /\ r.isError = TRUE
  /\ Len(r.content) = 1
  /\ DOMAIN ResponseOf(r) = { "error" }

IsCoverageShape(r) ==
  /\ r # None
  /\ DOMAIN r = { "content" }
  /\ Len(r.content) = 1
  /\ DOMAIN ResponseOf(r) = CoverageFields

RECURSIVE IsSubseq(_, _)
IsSubseq(s, t) ==
  IF s = << >> THEN TRUE
  ELSE IF t = << >> THEN FALSE
  ELSE IF Head(s) = Head(t) THEN IsSubseq(Tail(s), Tail(t))
  ELSE IsSubseq(s, Tail(t))

\* C1: the covering territory is the first active territory, in the order of
\* the response, whose synthesized boundaries hold the query point; once it is
\* found the handler is done, every earlier active territory was examined and
\* did not hold the point, and no lookup was issued for any later territory.
C1_FirstCoveringTerritoryStopsScan ==
  coveredByTerritory # None =>
    LET c == coveredByTerritory.territory.id IN
    /\ pc = "done"
    /\ ti = c
    /\ territories[c] = coveredByTerritory.territory
    /\ territories[c].active
    /\ isPointInPolygon(addressCoords, coveredByTerritory.boundaries)
    /\ examined[Len(examined)] = [id |-> c, inside |-> TRUE]
    /\ \A e \in 1..(Len(examined) - 1) : examined[e].id < c /\ ~examined[e].inside
    /\ \A n \in 1..(c - 1) :
         territories[n].active => \E e \in 1..Len(examined) : examined[e].id = n
    /\ \A n \in (c + 1)..Len(territories) : CallsFor(n) = << >>
    /\ IsCoverageShape(result)
    /\ ResponseOf(result).coverage_status = "covered"
    /\ ResponseOf(result).covered_by_territory.id = c

\* C1 witness: the second territory covers, the first was examined and did
\* not, a third one follows or not
C1_Witness ==
  /\ coveredByTerritory # None
  /\ coveredByTerritory.territory.id = 2
  /\ Len(examined) = 2
  /\ pc = "done"

\* C2: a territory with active = false is never the covering territory, never
\* the closest territory, never listed in territories_analysis, and no lookup
\* is issued for it.
C2_InactiveTerritoriesIgnored ==
  \A n \in 1..Len(territories) :
    ~territories[n].active =>
      /\ CallsFor(n) = << >>
      /\ coveredByTerritory # None => coveredByTerritory.territory.id # n
      /\ closestTerritory # None => closestTerritory.territory.id # n
      /\ \A e \in 1..Len(results) : results[e].territory_id # n
      /\ \A e \in 1..Len(examined) : examined[e].id # n
      /\ IsCoverageShape(result) =>
           LET r == ResponseOf(result) IN
           /\ r.covered_by_territory # None => r.covered_by_territory.id # n
           /\ r.closest_territory # None => r.closest_territory.id # n
           /\ \A e \in 1..Len(r.territories_analysis) :
                r.territories_analysis[e].territory_id # n

\* C2 witness: the handler is done, not covered, past an inactive territory
\* whose boundaries, had they been synthesized, would hold the query point
C2_Witness ==
  /\ pc = "done"
  /\ IsCoverageShape(result)
  /\ ResponseOf(result).coverage_status = "not_covered"
  /\ \E n \in 1..Len(territories) :
       /\ ~territories[n].active
       /\ isPointInPolygon(addressCoords,
            << Place(territories[n].zip_codes[1]), Place(territories[n].zip_codes[2]),
               Place(cityAddress(territories[n], territories[n].cities[1])) >>)

\* the address lookup settled with a failure
AddressFailed == addrAnswer # None /\ addrAnswer \in GeoFailures

\* C3: if geocoding the query address fails, the handler is done with an
\* error-flagged result and the address lookup is the only call ever issued.
C3_AddressFailureIsFatal ==
  AddressFailed =>
    /\ pc = "done"
    /\ IsErrorShape(result)
    /\ calls = << GeoCall(address, 0) >>
    /\ pending = None
    /\ fetched = None
    /\ ti = 0

\* C3 witness: the lookup answered with a non-success status, a credential is there
C3_Witness ==
  /\ AddressFailed
  /\ "ok" \in DOMAIN addrAnswer
  /\ ~addrAnswer.ok
  /\ Truthy(apiKey)
  /\ pc = "done"

\* C4: every result is either error-flagged and carries only a message, or is
\* a complete CoverageResult without the error flag; the second only when
\* the address was geocoded, a credential was there and the territories
\* request succeeded.
C4_ResultIsErrorOrCoverage ==
  /\ (pc = "done") = (result # None)
  /\ result # None =>
       \/ IsErrorShape(result) /\ ~IsCoverageShape(result)
       \/ /\ IsCoverageShape(result)
          /\ ~IsErrorShape(result)
          /\ addressCoords # None
          /\ Truthy(apiKey)
          /\ fetched # None
          /\ "ok" \in DOMAIN fetched
          /\ fetched.ok
          /\ fetched.json # None

\* C4 witness: an error result after a territories request that failed
C4_Witness ==
  /\ IsErrorShape(result)
  /\ fetched # None
  /\ addressCoords # None

\* a lookup for a boundary point that settles hands over to the next step of its loop
LookupSettledGoesOn ==
  pc \in { "zipWait", "cityWait" } =>
    (pc' = (IF pc = "zipWait" THEN "zips" ELSE "cities") /\ k' = k + 1 /\ result' = None)

\* C5: once the address is geocoded and the territories are fetched, the
\* handler returns a CoverageResult whatever lookups for boundary points
\* fail, and a lookup that settles is followed by the next step of the same
\* loop with no result returned.
C5_LookupFailuresAbsorbed ==
  /\ [](ti >= 1 => (IF pc = "done" THEN IsCoverageShape(result) ELSE result = None))
  /\ [][LookupSettledGoesOn]_vars

\* C5 witness: a CoverageResult after a territory all of whose eight lookups failed
C5_Witness ==
  /\ pc = "done"
  /\ IsCoverageShape(result)
  /\ \E e \in 1..Len(results) :
       /\ Len(CallsFor(results[e].territory_id)) = ZipLimit + CityLimit
       /\ results[e].distance_meters = Absent

C7_NoCallAtAllWithoutKey ==
  ~Truthy(apiKey) => calls = << >>

\* C7: without a credential the only outbound call ever issued is the address
\* lookup; no territories request is made, the result is error-flagged, and
\* it carries the missing-key message when the address lookup succeeded.
C7_OnlyAddressLookupWithoutKey ==
  ~Truthy(apiKey) =>
    /\ calls \in { << >>, << GeoCall(address, 0) >> }
    /\ fetched = None
    /\ ti = 0
    /\ pc = "done" => IsErrorShape(result)
    /\ (pc = "done" /\ addressCoords # None) =>
         ResponseOf(result).error = "Error checking territory coverage: " \o MissingKeyMessage

\* C7 witness: the address was geocoded and the handler failed for the missing key
C7_Witness ==
  /\ ~Truthy(apiKey)
  /\ pc = "done"
  /\ addressCoords # None
  /\ Len(calls) = 1

\* the territories request settled with a non-success status
HttpFailed == fetched # None /\ "ok" \in DOMAIN fetched /\ ~fetched.ok

\* C8: a non-success status of the territories endpoint ends the handler with
\* an error-flagged result whose message carries the status code and the body
\* text; no territory is examined afterwards.
C8_HttpErrorSurfaced ==
  HttpFailed =>
    /\ pc = "done"
    /\ IsErrorShape(result)
    /\ ResponseOf(result).error =
         "Error checking territory coverage: Zenbooker API Error ("
           \o ToString(fetched.status) \o "): " \o fetched.text
    /\ ti = 0
    /\ twb = None
    /\ examined = << >>
    /\ Len(calls) = 2

\* C8 witness: the endpoint answered 401
C8_Witness ==
  /\ HttpFailed
  /\ fetched.status = 401
  /\ pc = "done"

\* C9 as claimed: with fewer than three geocoded points and a center, the
\* boundaries returned are exactly the four corners of the square.
C9_FallbackIsExactlyTheSquare ==
  (twb # None /\ Len(geocoded) < MinPolygon /\ twb.center # None) =>
    twb.boundaries = SquareCorners(twb.center)

\* C10: with k >= 3 geocoded points the boundaries returned are exactly those
\* k points in the order they were geocoded, zip codes before cities, and no
\* corner of the square is added.
C10_RawPointsTakePriority ==
  (twb # None /\ Len(geocoded) >= MinPolygon) =>
    LET t == twb.territory
        cs == Queries(CallsFor(t.id))
        zs == ZipSlice(t)
        cityQs == [i \in 1..Len(CitySlice(t, << >>)) |-> cityAddress(t, CitySlice(t, << >>)[i])]
    IN
    /\ twb.boundaries = geocoded
    /\ Len(twb.boundaries) = Len(geocoded)
    /\ cs \in { zs, zs \o cityQs }
    /\ IsSubseq(twb.boundaries, [i \in 1..Len(cs) |-> Place(cs[i])])
    /\ twb.center = geocoded[1]

\* C10 witness: two zip codes and one city were geocoded, three points in all
C10_Witness ==
  /\ twb # None
  /\ Len(geocoded) = 3
  /\ Len(ZipSlice(twb.territory)) = 2
  /\ twb.boundaries = << Place("82801"), Place("82832"), Place("Sheridan") >>

\* C11: a territory for which no point was geocoded is returned with
\* boundaries and center undefined, its containment test is not true, and it
\* is neither the covering nor the closest territory, then or in the result.
C11_NoPointsNoBoundaryNoCenter ==
  /\ (twb # None /\ geocoded = << >>) =>
       /\ twb.boundaries = None
       /\ twb.center = None
       /\ examined[Len(examined)] = [id |-> twb.territory.id, inside |-> FALSE]
       /\ coveredByTerritory # None => coveredByTerritory.territory.id # twb.territory.id
       /\ closestTerritory # None => closestTerritory.territory.id # twb.territory.id
  /\ \A e \in 1..Len(results) :
       results[e].distance_meters = Absent =>
         /\ closestTerritory # None => closestTerritory.territory.id # results[e].territory_id
         /\ IsCoverageShape(result) =>
              LET r == ResponseOf(result) IN
              /\ r.covered_by_territory # None =>
                   r.covered_by_territory.id # results[e].territory_id
              /\ r.closest_territory # None =>
                   r.closest_territory.id # results[e].territory_id

\* C11 witness: every lookup of a territory failed, after another territory
\* had given a closest one, and the handler is done
C11_Witness ==
  /\ pc = "done"
  /\ twb # None
  /\ geocoded = << >>
  /\ Len(CallsFor(twb.territory.id)) = ZipLimit + CityLimit
  /\ closestTerritory # None

\* C12 as claimed: when the query point is the center of a territory that got
\* the fallback, that territory is the covering territory.
C12_CenterOfFallbackIsCovered ==
  (twb # None /\ Len(geocoded) < MinPolygon /\ twb.center # None
     /\ addressCoords = twb.center) =>
    /\ coveredByTerritory # None
    /\ coveredByTerritory.territory.id = twb.territory.id

\* C13: when the status is not_covered every active territory is listed in the
\* analysis, closest_territory is null exactly when none of them has a center,
\* and otherwise it is an active territory whose distance is the least of all.
C13_ClosestIsNearestCenter ==
  (IsCoverageShape(result) /\ ResponseOf(result).coverage_status = "not_covered") =>
    LET r == ResponseOf(result)
        an == r.territories_analysis
        withCenter == { e \in 1..Len(an) : an[e].distance_meters # Absent }
    IN
    /\ \A n \in 1..Len(territories) :
         territories[n].active => \E e \in 1..Len(an) : an[e].territory_id = n
    /\ (r.closest_territory = None) = (withCenter = { })
    /\ r.closest_territory # None =>
         /\ territories[r.closest_territory.id].active
         /\ \E e \in withCenter :
              /\ an[e].territory_id = r.closest_territory.id
              /\ an[e].distance_meters = Some(r.closest_territory.distance_meters)
         /\ \A e \in withCenter :
              r.closest_territory.distance_meters <= an[e].distance_meters[1]

\* C13 witness: two territories with a center, the second one nearer
C13_Witness ==
  /\ IsCoverageShape(result)
  /\ ResponseOf(result).coverage_status = "not_covered"
  /\ Len(results) = 2
  /\ results[1].distance_meters # Absent
  /\ results[2].distance_meters # Absent
  /\ results[2].distance_meters[1] < results[1].distance_meters[1]
  /\ ResponseOf(result).closest_territory.id = 2

\* C14 as claimed: all_territories_checked counts the territories examined and
\* territories_analysis lists each of them.
C14_CheckedCountsExamined ==
  IsCoverageShape(result) =>
    LET r == ResponseOf(result) IN
    /\ r.all_territories_checked = Len(examined)
    /\ Len(r.territories_analysis) = Len(examined)
    /\ \A e \in 1..Len(examined) :
         \E a \in 1..Len(r.territories_analysis) :
           r.territories_analysis[a].territory_id = examined[e].id

\* C15 as claimed: the address lookup gives a Coordinate only when the address
\* is non-empty and the service answered with a success status and at least
\* one candidate; in every other case no Coordinate is returned.
C15_CoordinateOnlyForNonEmptyAddress ==
  addrAnswer # None =>
    (addressCoords # None) =
      (/\ address # ""
       /\ "ok" \in DOMAIN addrAnswer
       /\ addrAnswer.ok
       /\ Len(addrAnswer.data) >= 1)

C17_InterleavedAsAlone ==
  proc # << >> =>
    \A p \in Invocations :
      proc[p].pc = "done" => proc[p].result = Alone(proc[p].address)

\* C17 witness: two invocations for different addresses, both inside
\* createTerritoryBoundaries with a center each, of different territories
C17_Witness ==
  /\ proc # << >>
  /\ proc[1].address # proc[2].address
  /\ proc[1].pc \in { "zipWait", "cityWait" }
  /\ proc[2].pc \in { "zipWait", "cityWait" }
  /\ proc[1].ti # proc[2].ti
  /\ proc[1].center # None
  /\ proc[2].center # None
  /\ proc[1].center # proc[2].center

\* the address as URLSearchParams writes it in a query string
FormEncoded(a) ==
  CASE a = "" -> ""
    [] a = "1234 Main Street, Billings, MT" -> "1234+Main+Street%2C+Billings%2C+MT"

\* C18 as claimed: a finished check has made exactly one network request, an
\* authenticated GET to /territories/check-coverage with the address as the
\* query parameter, and its text content is the JSON body of that response.
C18_OneRequestToCheckCoverage ==
  (pc = "done" /\ Truthy(apiKey)) =>
    /\ calls = << [service |-> "zenbooker",
                   url |-> "https://api.zenbooker.com/v1/territories/check-coverage?address="
                             \o FormEncoded(address),
                   method |-> "GET",
                   authorization |-> "Bearer " \o apiKey[1],
                   body |-> None] >>
    /\ (fetched # None /\ "ok" \in DOMAIN fetched /\ fetched.ok) =>
         result = CoverageResult(fetched.json)

\* C19 as claimed: a direct request made without an explicit credential uses
\* the global key set with setApiKey, an explicit credential comes first, and
\* the missing-key error is raised only when neither is set.
C19_GlobalKeyIsTheFallback ==
  (req # None /\ pc \in { "reqWait", "reqDone" }) =>
    /\ (calls = << >>) = (~Truthy(req.apiKey) /\ ~Truthy(globalApiKey))
    /\ calls = << >> => reqOut = [threw |-> TRUE, message |-> MissingKeyMessage]
    /\ calls # << >> =>
         calls[1].authorization =
           "Bearer " \o (IF Truthy(req.apiKey) THEN req.apiKey[1] ELSE globalApiKey[1])

\* the claims logged and not yet verified, by the id logClaim returned
LoggedUnverified == { i \in 1..Len(claimLog) : i \notin settled }

\* only logClaim and verifyClaim were called so far
OnlyClaimCalls ==
  /\ \A i \in 1..Len(entries) : entries[i].entry.type = "claim"
  /\ \A r \in DOMAIN violations : violations[r] = 0

\* a claim that was verified or failed is not pending after the step
NeverPendingAgain ==
  \A i \in 1..Len(entries) :
    (entries[i].entry.type = "claim" /\ entries[i].entry.status \in { "verified", "failed" }) =>
      \A j \in 1..Len(entries') :
        entries'[j].key = entries[i].key => entries'[j].entry.status # "pending"

\* C20 as claimed: after any sequence of logClaim and verifyClaim calls the
\* unverified claims are exactly the claims logged and not yet verified, one
\* per logClaim call and under the id it returned, and a claim that was
\* verified or failed never becomes pending again.
C20_UnverifiedAreLoggedNotVerified ==
  /\ [](OnlyClaimCalls =>
          /\ Len(getUnverifiedClaims) = Cardinality(LoggedUnverified)
          /\ { getUnverifiedClaims[i].id : i \in 1..Len(getUnverifiedClaims) }
               = { claimLog[i] : i \in LoggedUnverified })
  /\ [][(OnlyClaimCalls /\ OnlyClaimCalls') => NeverPendingAgain]_vars

FirstN(s, n) == SubSeq(s, 1, Min(n, Len(s)))

Range(s) == { s[i] : i \in 1..Len(s) }

IsPrefix(s, t) == Len(s) <= Len(t) /\ s = SubSeq(t, 1, Len(s))

\* the query strings of a territory in the order of the claim: its first
\* five postal codes in list order, then its first three cities in list order
ZipOrder(t) == IF Has(t, "zip_codes") THEN FirstN(t.zip_codes, 5) ELSE << >>

CityOrder(t) ==
  IF Has(t, "cities")
    THEN [i \in 1..Len(FirstN(t.cities, 3)) |-> cityAddress(t, t.cities[i])]
    ELSE << >>

\* the calls issued so far are in the order of the claim
CallsInOrder ==
  /\ Len(calls) >= 1 => calls[1] = GeoCall(address, 0)
  /\ Len(calls) >= 2 =>
       /\ calls[2].service = "zenbooker"
       /\ calls[2].url = "https://api.zenbooker.com/v1/territories"
  /\ \A i \in 3..Len(calls) : calls[i].service = "geocode" /\ calls[i].terr >= 1
  /\ \A i, j \in 3..Len(calls) : i < j => calls[i].terr <= calls[j].terr
  /\ \A n \in 1..Len(territories) :
       /\ IsPrefix(Queries(CallsFor(n)), ZipOrder(territories[n]) \o CityOrder(territories[n]))
       /\ CallsFor(n) # << >> =>
            /\ territories[n].active
            /\ \A m \in 1..(n - 1) :
                 territories[m].active => \E e \in 1..Len(examined) : examined[e].id = m
  /\ pending # None => pending = calls[Len(calls)]

\* a call is issued only when no call is in flight, and is then the one in flight
IssuedOneAtATime ==
  calls' # calls =>
    /\ pending = None
    /\ Len(calls') = Len(calls) + 1
    /\ pending' = calls'[Len(calls')]

\* C21: the calls of one invocation are issued one at a time in the order
\* address lookup, territories request, then per active territory in list
\* order its postal codes in list order followed by its cities in list order;
\* no call is issued while another is in flight, and a territory is examined
\* before any lookup for a later territory.
C21_CallsStrictlySequential ==
  /\ []CallsInOrder
  /\ [][IssuedOneAtATime]_vars

\* C21 witness: all eight lookups of the first territory were issued, then
\* lookups of the second, and the handler is done
C21_Witness ==
  /\ pc = "done"
  /\ Len(CallsFor(1)) = ZipLimit + CityLimit
  /\ Len(CallsFor(2)) >= 2
  /\ Len(calls) = 2 + Len(CallsFor(1)) + Len(CallsFor(2))

\* how many of the points geocoded for territory t came from its postal codes
ZipSuccesses(t) ==
  Cardinality({ i \in 1..Len(geocoded) : geocoded[i] \in { Place(z) : z \in Range(ZipOrder(t)) } })

\* C22: the lookups issued for a territory number min(5, postal codes) plus,
\* only if fewer than 3 postal-code lookups succeeded, min(3, cities); never
\* more than 8; and no query string is looked up twice.
C22_LookupBudgetPerTerritory ==
  /\ \A n \in 1..Len(territories) :
       /\ Len(CallsFor(n)) <= 8
       /\ \A i, j \in 1..Len(CallsFor(n)) : i # j => CallsFor(n)[i].q # CallsFor(n)[j].q
  /\ twb # None =>
       LET t == twb.territory
           zips == IF Has(t, "zip_codes") THEN Len(t.zip_codes) ELSE 0
           cities == IF Has(t, "cities") THEN Len(t.cities) ELSE 0
       IN Len(CallsFor(t.id)) =
            Min(5, zips) + (IF ZipSuccesses(t) < 3 THEN Min(3, cities) ELSE 0)

\* C22 witness: of five postal-code lookups one failed and at least three
\* succeeded, so the cities of the territory were not looked up
C22_Witness ==
  /\ twb # None
  /\ Has(twb.territory, "cities")
  /\ Len(CallsFor(twb.territory.id)) = 5
  /\ Len(geocoded) = 4

\* C23: while a territory is being geocoded and when it is returned, its
\* center is the first point geocoded for it in attempt order and stays that
\* point; boundaries made of the raw points start with the center.
C23_CenterIsFirstSuccess ==
  /\ pc \in { "zips", "zipWait", "cities", "cityWait", "synth" } =>
       /\ center = (IF geocoded = << >> THEN None ELSE geocoded[1])
       /\ IsSubseq(geocoded, [i \in 1..Len(CallsFor(ti)) |-> Place(CallsFor(ti)[i].q)])
  /\ twb # None =>
       /\ twb.center = (IF geocoded = << >> THEN None ELSE geocoded[1])
       /\ Len(geocoded) >= 3 => twb.center = twb.boundaries[1]

\* C23 witness: the first lookup failed, three later ones succeeded, and the
\* territory was returned with the raw points as boundaries
C23_Witness ==
  /\ twb # None
  /\ Len(geocoded) = 3
  /\ Len(CallsFor(twb.territory.id)) >= 4
  /\ geocoded[1] # Place(CallsFor(twb.territory.id)[1].q)
  /\ twb.center = geocoded[1]

\* C24: the containment test gives the same answer for a polygon of at least
\* 3 vertices and for every cyclic rotation of its vertex list.
C24_ContainmentRotationInvariant ==
  pc \in { "geoTest", "geoRotate" } =>
    \A e \in 1..Len(examined) : examined[e].inside = examined[1].inside

\* C24 witness: a polygon of four vertices that holds the point was tested at
\* each of its four rotations
C24_Witness ==
  /\ pc = "geoRotate"
  /\ Len(boundaries) = 4
  /\ Len(examined) = 4
  /\ examined[4].inside

Abs(x) == IF x < 0 THEN -x ELSE x

\* C25 as claimed: when a territory got the fallback, a query point whose
\* latitude and longitude are both strictly less than 0.15 degrees away from
\* the center is found inside the boundaries of the territory.
C25_NearCenterIsInsideFallback ==
  (/\ twb # None
   /\ Len(geocoded) < MinPolygon
   /\ twb.center # None
   /\ Abs(addressCoords.latitude - twb.center.latitude) < offset
   /\ Abs(addressCoords.longitude - twb.center.longitude) < offset) =>
    examined[Len(examined)] = [id |-> twb.territory.id, inside |-> TRUE]

\* C26: a territory is returned with a center exactly when it is returned
\* with boundaries, and boundaries returned have at least 3 vertices.
C26_CenterIffBoundaries ==
  twb # None =>
    /\ (twb.center # None) = (twb.boundaries # None)
    /\ twb.boundaries # None => Len(twb.boundaries) >= 3

\* C26 witness: a single point was geocoded and the territory was returned
\* with a center and with boundaries
C26_Witness ==
  /\ twb # None
  /\ Len(geocoded) = 1
  /\ twb.center # None
  /\ twb.boundaries # None

\* C27: in every CoverageResult closest_territory is null when no entry of
\* territories_analysis has a distance, and otherwise is the earliest entry
\* whose distance is the least; with the status covered it is a territory
\* scanned before the covering one and not the covering one.
C27_ClosestDrawnFromAnalysis ==
  IsCoverageShape(result) =>
    LET r == ResponseOf(result)
        an == r.territories_analysis
        withDistance == { e \in 1..Len(an) : an[e].distance_meters # Absent }
    IN
    /\ (r.closest_territory = None) = (withDistance = { })
    /\ r.closest_territory # None =>
         /\ \E e \in withDistance :
              /\ an[e].territory_id = r.closest_territory.id
              /\ an[e].distance_meters = Some(r.closest_territory.distance_meters)
              /\ \A e2 \in withDistance :
                   /\ an[e2].distance_meters[1] >= r.closest_territory.distance_meters
                   /\ e2 < e => an[e2].distance_meters[1] > r.closest_territory.distance_meters
         /\ r.covered_by_territory # None =>
              r.closest_territory.id < r.covered_by_territory.id

\* C27 witness: the second territory covers the address and the first one,
\* which has a center, is reported as the closest
C27_Witness ==
  /\ IsCoverageShape(result)
  /\ ResponseOf(result).coverage_status = "covered"
  /\ ResponseOf(result).covered_by_territory.id = 2
  /\ ResponseOf(result).closest_territory # None
  /\ ResponseOf(result).closest_territory.id = 1

\* the active territories of the response
ActiveTerritories == { n \in 1..Len(territories) : territories[n].active }

\* C28: when every call settles, the invocation eventually returns a result,
\* and it never issues more than 2 + 8 x (active territories) network calls.
C28_ReturnsWithinCallBudget ==
  /\ <>(pc = "done" /\ result # None)
  /\ [](Len(calls) <= 2 + 8 * Cardinality(ActiveTerritories))

\* C28 witness: the handler returned after the most calls two active
\* territories allow
C28_Witness ==
  /\ pc = "done"
  /\ result # None
  /\ Cardinality(ActiveTerritories) = 2
  /\ Len(calls) = 2 + 8 * 2

\* a step that changes the global key sets it: setApiKey called directly, or
\* by a fetch whose env carries a key; a fetch without one leaves it alone
GlobalKeyOnlySet ==
  /\ globalApiKey' # globalApiKey =>
       /\ req'.kind = "setApiKey" \/ (req'.kind = "fetch" /\ Truthy(req'.key))
       /\ globalApiKey' = req'.key
  /\ (k' = k + 1 /\ req'.kind = "fetch" /\ req'.key = Absent) => globalApiKey' = globalApiKey
  /\ (k' = k + 1 /\ req'.kind = "tool" /\ req'.key = Absent) =>
       /\ apiKey' = globalApiKey
       /\ globalApiKey' = globalApiKey

C30_EntriesKeyedByOwnId ==
  pc = "memory" => \A i \in 1..Len(entries) : entries[i].key = entries[i].entry.id

====
